---- MODULE Spec2Model ----
(***************************************************************************)
(* A model of the memchr crate (src/src/lib.rs): the build-time dispatch   *)
(* of memchr / memrchr, the host bridge, and the word-at-a-time (SWAR)     *)
(* fallback scanners with their alignment handling.                        *)
(*                                                                         *)
(* A usize is modelled as the sequence of its USIZE_BYTES bytes, index 1   *)
(* the least significant one, because a 64-bit word does not fit TLC's     *)
(* integers.  The arithmetic of the source (wrapping_sub, &, !, ^, |, <<)  *)
(* is computed on that representation, byte by byte with carries.          *)
(***************************************************************************)
EXTENDS Integers, Sequences, FiniteSets, TLC

\* ------------------------------------------------------------------ bounds

\* The longest haystack given to the scanners of a 32-bit build (four words
\* and a byte)
MaxLen32 == 17

\* and to those of a 64-bit build (four words and a byte).
MaxLen64 == 33

\* Haystacks of the dispatch specification have at most MaxDispLen bytes.
MaxDispLen == 2

\* ------------------------------------------------------- bits and bytes

Min(a, b) == IF a <= b THEN a ELSE b

RECURSIVE BitAnd(_, _)
BitAnd(a, b) ==
    IF a = 0 \/ b = 0 THEN 0
    ELSE (a % 2) * (b % 2) + 2 * BitAnd(a \div 2, b \div 2)

RECURSIVE BitOr(_, _)
BitOr(a, b) ==
    IF a = 0 THEN b
    ELSE IF b = 0 THEN a
    ELSE (IF a % 2 = 1 \/ b % 2 = 1 THEN 1 ELSE 0) + 2 * BitOr(a \div 2, b \div 2)

RECURSIVE BitXor(_, _)
BitXor(a, b) ==
    IF a = 0 THEN b
    ELSE IF b = 0 THEN a
    ELSE ((a + b) % 2) + 2 * BitXor(a \div 2, b \div 2)

\* One byte of `!x`.
ByteNot(a) == 255 - a

\* ------------------------------------------------------------- usize words

\* target_pointer_width = "32" gives 4, "64" gives 8.
USIZE_BYTES(bits) == IF bits = 32 THEN 4 ELSE 8

\* 0x0101010101010101 and 0x8080808080808080 as u64.
LO_U64 == [i \in 1..8 |-> 1]
HI_U64 == [i \in 1..8 |-> 128]

\* `as usize`: truncation keeps the low USIZE_BYTES bytes.
Truncate(w, W) == [i \in 1..W |-> w[i]]

LO_USIZE(W) == Truncate(LO_U64, W)
HI_USIZE(W) == Truncate(HI_U64, W)

ZeroWord(W) == [i \in 1..W |-> 0]

\* `b as usize`.
ByteAsWord(b, W) == [i \in 1..W |-> IF i = 1 THEN b ELSE 0]

WordAnd(a, b) == [i \in 1..Len(a) |-> BitAnd(a[i], b[i])]
WordOr(a, b)  == [i \in 1..Len(a) |-> BitOr(a[i], b[i])]
WordXor(a, b) == [i \in 1..Len(a) |-> BitXor(a[i], b[i])]
WordNot(a)    == [i \in 1..Len(a) |-> ByteNot(a[i])]

\* `w << (8 * k)`: the high bytes fall off the word.
ShlBytes(w, k) == [i \in 1..Len(w) |-> IF i <= k THEN 0 ELSE w[i - k]]

\* The borrow into byte i of a - b (0 or 1).
RECURSIVE Borrow(_, _, _)
Borrow(a, b, i) ==
    IF i = 1 THEN 0
    ELSE IF a[i - 1] - b[i - 1] - Borrow(a, b, i - 1) < 0 THEN 1 ELSE 0

\* a.wrapping_sub(b): subtraction modulo 2^(8 * USIZE_BYTES).
WrappingSub(a, b) ==
    [i \in 1..Len(a) |-> (a[i] - b[i] - Borrow(a, b, i) + 256) % 256]

\* A mutant of contains_zero_byte: the `& !x` term is dropped.
contains_zero_byte_NoNot(x) ==
    WordAnd(WrappingSub(x, LO_USIZE(Len(x))), HI_USIZE(Len(x))) # ZeroWord(Len(x))

\* A mutant of contains_zero_byte: the `& HI_USIZE` term is dropped.
contains_zero_byte_NoHi(x) ==
    WordAnd(WrappingSub(x, LO_USIZE(Len(x))), WordNot(x)) # ZeroWord(Len(x))

\* x.wrapping_sub(LO_USIZE) & !x & HI_USIZE != 0
contains_zero_byte(x) ==
    WordAnd(WordAnd(WrappingSub(x, LO_USIZE(Len(x))), WordNot(x)),
            HI_USIZE(Len(x))) # ZeroWord(Len(x))

\* repeat_byte for the pointer width of W bytes.
repeat_byte(b, W) ==
    LET rep1 == WordOr(ShlBytes(ByteAsWord(b, W), 1), ByteAsWord(b, W))
        rep2 == WordOr(ShlBytes(rep1, 2), rep1)
        rep3 == WordOr(ShlBytes(rep2, 4), rep2)
    IN  IF W = 4 THEN rep2 ELSE rep3


\* ------------------------------------------------------------------- state

VARIABLES
    cfg_os,      \* target_os of the build
    cfg_bits,    \* target_pointer_width of the build
    fn,          \* the function called: "memchr" or "memrchr"
    impl,        \* the memchr_specific / memrchr_specific the build compiled in
    x,           \* the needle
    text,        \* the haystack
    ptr,         \* text.as_ptr() as usize
    pc,          \* position in the running function
    offset,      \* the local `offset` of the fallback scanners
    repeated_x,  \* the local `repeated_x`
    result,      \* None is << >>, Some(i) is << i >>
    loads,       \* the addresses of the raw usize loads performed so far
    examined,    \* bytes looked at by the final per-byte scan of a scanner
    hostCalls,   \* << routine, length >> of every host routine invoked
    word,        \* the argument of a direct contains_zero_byte evaluation
    wres         \* the outcome of that evaluation

vars == << cfg_os, cfg_bits, fn, impl, x, text, ptr, pc, offset, repeated_x,
           result, loads, examined, hostCalls, word, wres >>

None == << >>
Some(i) == << i >>

\* What a raw load yields when the access traps.
Fault == << >>

\* The byte values haystacks are built from, and the needles searched for.
Fillers == {128}
Needles == {0, 129}

\* The txt[lo..hi] of the source, as a sequence; lo and hi count from 0.
Slice(txt, lo, hi) == SubSeq(txt, lo + 1, hi)

\* Whether the range lo..hi is one a slice of length n accepts (else: panic).
SliceOk(lo, hi, n) == lo <= hi /\ hi <= n

\* s.iter().position(|elt| *elt == b), looking from index k on.
RECURSIVE PositionFrom(_, _, _)
PositionFrom(s, b, k) ==
    IF k >= Len(s) THEN None
    ELSE IF s[k + 1] = b THEN Some(k)
    ELSE PositionFrom(s, b, k + 1)

Position(s, b) == PositionFrom(s, b, 0)

\* s.iter().rposition(|elt| *elt == b), looking from index k - 1 down.
RECURSIVE RPositionFrom(_, _, _)
RPositionFrom(s, b, k) ==
    IF k = 0 THEN None
    ELSE IF s[k] = b THEN Some(k - 1)
    ELSE RPositionFrom(s, b, k - 1)

RPosition(s, b) == RPositionFrom(s, b, Len(s))

\* The number of elements position / rposition looked at to return `hit`.
PositionCost(s, hit) == IF hit = None THEN Len(s) ELSE hit[1] + 1
RPositionCost(s, hit) == IF hit = None THEN Len(s) ELSE Len(s) - hit[1]

\* ------------------------------------------------------------ raw loads

\* The usize stored at address a, when all of it is haystack.  The bytes are
\* taken in little-endian order, as on the windows and macos targets the
\* fallback is built for.
MemWord(txt, p, a, W) == [i \in 1..W |-> txt[a - p + i]]

InBounds(txt, p, a, W) == p <= a /\ a + W <= p + Len(txt)

\* The byte at address a; outside the haystack the memory holds an unknown g.
MemByte(txt, p, a, g) ==
    IF p <= a /\ a < p + Len(txt) THEN txt[a - p + 1] ELSE g

\* The outcomes of `*(a as *const usize)`.  An aligned load inside the
\* haystack yields the stored word.  A misaligned one is undefined behaviour:
\* it yields the stored word where the hardware tolerates it and traps where
\* it does not.  One outside the haystack traps or yields unknown bytes.
RawLoad(txt, p, a, W) ==
    IF InBounds(txt, p, a, W)
    THEN IF a % W = 0 THEN {MemWord(txt, p, a, W)}
         ELSE {MemWord(txt, p, a, W), Fault}
    ELSE {Fault} \cup
         {[i \in 1..W |-> MemByte(txt, p, a + i - 1, g)] : g \in Fillers \cup Needles}


\* ------------------------------------------ fallback::memchr (forward scan)

\* An unsigned subtraction a - b that cannot be represented: the debug build
\* panics on it, the release build wraps and the slice range that follows
\* is rejected.
Underflows(a, b) == a < b

\* (ptr as usize) & (USIZE_BYTES - 1)
FwdAlign(p, W) == BitAnd(p, W - 1)

\* A mutant of FwdHeadOffset: the misalignment itself is taken for the
\* distance to the next aligned address.
FwdHeadOffset_Align(align, n, W) == Min(align, n)

\* cmp::min(USIZE_BYTES - align, len)
FwdHeadOffset(align, n, W) == Min(W - align, n)

\* if len >= 2 * USIZE_BYTES
FwdHasBody(n, W) == n >= 2 * W

\* A mutant of FwdLoopGuard: the loop asks for one word where it loads two.
FwdLoopGuard_OneWord(off, n, W) == off <= n - W

\* while offset <= len - 2 * USIZE_BYTES
FwdLoopGuard(off, n, W) == off <= n - 2 * W

\* A mutant of FwdTailResult: the index within the slice is returned as is.
FwdTailResult_NoOffset(off, i) == Some(i)

\* .map(|i| offset + i)
FwdTailResult(off, i) == Some(off + i)

\* The head: the per-byte scan up to the first aligned address.
FwdHead ==
    /\ pc = "fwd_head"
    /\ LET W     == USIZE_BYTES(cfg_bits)
           n     == Len(text)
           align == FwdAlign(ptr, W)
           off   == IF align > 0 THEN FwdHeadOffset(align, n, W) ELSE 0
           hit   == IF align > 0 THEN Position(Slice(text, 0, off), x) ELSE None
       IN  IF ~SliceOk(0, off, n)
           THEN /\ pc' = "panic"
                /\ UNCHANGED << offset, repeated_x, result >>
           ELSE IF hit # None
           THEN /\ result' = Some(hit[1])
                /\ pc' = "done"
                /\ offset' = off
                /\ UNCHANGED repeated_x
           ELSE /\ offset' = off
                /\ repeated_x' = repeat_byte(x, W)
                /\ pc' = "fwd_body"
                /\ UNCHANGED result
    /\ UNCHANGED << cfg_os, cfg_bits, fn, impl, x, text, ptr, loads, examined,
                    hostCalls, word, wres >>

\* The test of the body loop and one pass through it.
FwdBody ==
    /\ pc = "fwd_body"
    /\ LET W == USIZE_BYTES(cfg_bits)
           n == Len(text)
       IN  IF ~FwdHasBody(n, W)
           THEN /\ pc' = "fwd_tail"
                /\ UNCHANGED << offset, loads >>
           ELSE IF Underflows(n, 2 * W)
           THEN /\ pc' = "panic"
                /\ UNCHANGED << offset, loads >>
           ELSE IF ~FwdLoopGuard(offset, n, W)
           THEN /\ pc' = "fwd_tail"
                /\ UNCHANGED << offset, loads >>
           ELSE \E u \in RawLoad(text, ptr, ptr + offset, W) :
                  IF u = Fault
                  THEN /\ pc' = "fault"
                       /\ loads' = loads \cup {ptr + offset}
                       /\ UNCHANGED offset
                  ELSE \E v \in RawLoad(text, ptr, ptr + offset + W, W) :
                         /\ loads' = loads \cup {ptr + offset, ptr + offset + W}
                         /\ IF v = Fault
                            THEN /\ pc' = "fault"
                                 /\ UNCHANGED offset
                            ELSE IF \/ contains_zero_byte(WordXor(u, repeated_x))
                                    \/ contains_zero_byte(WordXor(v, repeated_x))
                            THEN /\ pc' = "fwd_tail"
                                 /\ UNCHANGED offset
                            ELSE /\ offset' = offset + W * 2
                                 /\ pc' = "fwd_body"
    /\ UNCHANGED << cfg_os, cfg_bits, fn, impl, x, text, ptr, repeated_x, result,
                    examined, hostCalls, word, wres >>

\* The per-byte scan after the point the body loop stopped.
FwdTail ==
    /\ pc = "fwd_tail"
    /\ LET n   == Len(text)
           s   == Slice(text, offset, n)
           hit == Position(s, x)
       IN  IF ~SliceOk(offset, n, n)
           THEN /\ pc' = "panic"
                /\ UNCHANGED << result, examined >>
           ELSE /\ result' = IF hit = None THEN None ELSE FwdTailResult(offset, hit[1])
                /\ examined' = PositionCost(s, hit)
                /\ pc' = "done"
    /\ UNCHANGED << cfg_os, cfg_bits, fn, impl, x, text, ptr, offset, repeated_x,
                    loads, hostCalls, word, wres >>

\* ----------------------------------------- fallback::memrchr (reverse scan)

\* (ptr as usize + len) & (USIZE_BYTES - 1)
RevEndAlign(p, n, W) == BitAnd(p + n, W - 1)

\* cmp::min(USIZE_BYTES - end_align, len), the bytes the tail scan takes.
RevTailLen(end_align, n, W) == Min(W - end_align, n)

\* while offset >= 2 * USIZE_BYTES
RevLoopGuard(off, W) == off >= 2 * W

\* A mutant of RevTailResult: the index within the slice is returned as is.
RevTailResult_NoOffset(off, i) == Some(i)

\* return Some(offset + index)
RevTailResult(off, i) == Some(off + i)

\* The tail: the per-byte scan from the end down to `offset`.
RevTail ==
    /\ pc = "rev_tail"
    /\ LET W         == USIZE_BYTES(cfg_bits)
           n         == Len(text)
           end_align == RevEndAlign(ptr, n, W)
           taken     == RevTailLen(end_align, n, W)
           off       == IF end_align > 0 THEN n - taken ELSE n
           hit       == IF end_align > 0
                        THEN RPosition(Slice(text, off, n), x) ELSE None
       IN  IF end_align > 0 /\ Underflows(n, taken)
           THEN /\ pc' = "panic"
                /\ UNCHANGED << offset, repeated_x, result >>
           ELSE IF ~SliceOk(off, n, n)
           THEN /\ pc' = "panic"
                /\ UNCHANGED << offset, repeated_x, result >>
           ELSE IF hit # None
           THEN /\ result' = RevTailResult(off, hit[1])
                /\ pc' = "done"
                /\ offset' = off
                /\ UNCHANGED repeated_x
           ELSE /\ offset' = off
                /\ repeated_x' = repeat_byte(x, W)
                /\ pc' = "rev_body"
                /\ UNCHANGED result
    /\ UNCHANGED << cfg_os, cfg_bits, fn, impl, x, text, ptr, loads, examined,
                    hostCalls, word, wres >>

\* The test of the body loop and one pass through it.
RevBody ==
    /\ pc = "rev_body"
    /\ LET W == USIZE_BYTES(cfg_bits)
       IN  IF ~RevLoopGuard(offset, W)
           THEN /\ pc' = "rev_head"
                /\ UNCHANGED << offset, loads >>
           ELSE \E u \in RawLoad(text, ptr, ptr + offset - 2 * W, W) :
                  IF u = Fault
                  THEN /\ pc' = "fault"
                       /\ loads' = loads \cup {ptr + offset - 2 * W}
                       /\ UNCHANGED offset
                  ELSE \E v \in RawLoad(text, ptr, ptr + offset - W, W) :
                         /\ loads' = loads \cup {ptr + offset - 2 * W, ptr + offset - W}
                         /\ IF v = Fault
                            THEN /\ pc' = "fault"
                                 /\ UNCHANGED offset
                            ELSE IF \/ contains_zero_byte(WordXor(u, repeated_x))
                                    \/ contains_zero_byte(WordXor(v, repeated_x))
                            THEN /\ pc' = "rev_head"
                                 /\ UNCHANGED offset
                            ELSE IF Underflows(offset, 2 * W)
                            THEN /\ pc' = "panic"
                                 /\ UNCHANGED offset
                            ELSE /\ offset' = offset - 2 * W
                                 /\ pc' = "rev_body"
    /\ UNCHANGED << cfg_os, cfg_bits, fn, impl, x, text, ptr, repeated_x, result,
                    examined, hostCalls, word, wres >>

\* The per-byte scan before the point the body loop stopped.
RevHead ==
    /\ pc = "rev_head"
    /\ LET n   == Len(text)
           s   == Slice(text, 0, offset)
           hit == RPosition(s, x)
       IN  IF ~SliceOk(0, offset, n)
           THEN /\ pc' = "panic"
                /\ UNCHANGED << result, examined >>
           ELSE /\ result' = hit
                /\ examined' = RPositionCost(s, hit)
                /\ pc' = "done"
    /\ UNCHANGED << cfg_os, cfg_bits, fn, impl, x, text, ptr, offset, repeated_x,
                    loads, hostCalls, word, wres >>

\* ------------------------------------------------- the scanners, called

\* The haystacks of n bytes: filler bytes, with the needle b at up to two
\* places i and j (i = j = 0: nowhere).
Haystacks(n, b) ==
    {[k \in 1..n |-> IF k = i \/ k = j THEN b ELSE f] :
        f \in Fillers, i \in 0..n, j \in 0..n}

\* fallback is compiled where target_os is not linux and the pointer width
\* is 32 or 64; either function is entered with any needle, any haystack and
\* any base address.  An address is non-null; ptr covers every alignment.
InitSwar ==
    /\ cfg_os = "windows"
    /\ cfg_bits \in {32, 64}
    /\ fn \in {"memchr", "memrchr"}
    /\ impl = "fallback"
    /\ x \in Needles
    /\ \E n \in 0..(IF cfg_bits = 32 THEN MaxLen32 ELSE MaxLen64) :
         text \in Haystacks(n, x)
    /\ ptr \in USIZE_BYTES(cfg_bits)..(2 * USIZE_BYTES(cfg_bits) - 1)
    /\ pc = IF fn = "memchr" THEN "fwd_head" ELSE "rev_tail"
    /\ offset = 0
    /\ repeated_x = << >>
    /\ result = None
    /\ loads = {}
    /\ examined = 0
    /\ hostCalls = {}
    /\ word = << >>
    /\ wres = FALSE

NextSwar ==
    \/ FwdHead
    \/ FwdBody
    \/ FwdTail
    \/ RevTail
    \/ RevBody
    \/ RevHead

SpecSwar == InitSwar /\ [][NextSwar]_vars


\* ------------------------------------------------ the zero-byte test alone

\* The byte values the words of the direct evaluation are built from.
WordBytes == {0, 1, 128, 255}

\* contains_zero_byte(word)
TestZero ==
    /\ pc = "word"
    /\ wres' = contains_zero_byte(word)
    /\ pc' = "zero_tested"
    /\ UNCHANGED << cfg_os, cfg_bits, fn, impl, x, text, ptr, offset, repeated_x,
                    result, loads, examined, hostCalls, word >>

\* contains_zero_byte(word ^ repeat_byte(x)), as both body loops compute it.
TestMatch ==
    /\ pc = "word"
    /\ repeated_x' = repeat_byte(x, USIZE_BYTES(cfg_bits))
    /\ wres' = contains_zero_byte(WordXor(word, repeated_x'))
    /\ pc' = "match_tested"
    /\ UNCHANGED << cfg_os, cfg_bits, fn, impl, x, text, ptr, offset, result,
                    loads, examined, hostCalls, word >>

InitWord ==
    /\ cfg_os = "windows"
    /\ cfg_bits \in {32, 64}
    /\ fn = "contains_zero_byte"
    /\ impl = "fallback"
    /\ x \in Needles
    /\ word \in [1..USIZE_BYTES(cfg_bits) -> WordBytes]
    /\ text = << >>
    /\ ptr = USIZE_BYTES(cfg_bits)
    /\ pc = "word"
    /\ offset = 0
    /\ repeated_x = << >>
    /\ result = None
    /\ loads = {}
    /\ examined = 0
    /\ hostCalls = {}
    /\ wres = FALSE

NextWord ==
    \/ TestZero
    \/ TestMatch

SpecWord == InitWord /\ [][NextWord]_vars

\* ---------------------------------------------------------------- dispatch

\* #[cfg(any(not(target_os = "windows"),
\*           not(any(target_pointer_width = "32", target_pointer_width = "64"))))]
MemchrLibcCfg(os, bits) == (os # "windows") \/ ~(bits = 32 \/ bits = 64)

\* #[cfg(all(target_os = "windows",
\*           any(target_pointer_width = "32", target_pointer_width = "64")))]
MemchrFallbackCfg(os, bits) == os = "windows" /\ (bits = 32 \/ bits = 64)

\* #[cfg(target_os = "linux")]
MemrchrLinuxCfg(os, bits) == os = "linux"

\* A mutant of MemrchrFallbackCfg: the operating system is not looked at.
MemrchrFallbackCfg_AnyOs(os, bits) == bits = 32 \/ bits = 64

\* #[cfg(all(not(target_os = "linux"),
\*           any(target_pointer_width = "32", target_pointer_width = "64")))]
MemrchrFallbackCfg(os, bits) == os # "linux" /\ (bits = 32 \/ bits = 64)

\* #[cfg(all(not(target_os = "linux"), not(target_pointer_width = "32"),
\*           not(target_pointer_width = "64")))]
MemrchrGenericCfg(os, bits) == os # "linux" /\ bits # 32 /\ bits # 64

\* The cfg of `mod fallback`.
FallbackModCfg(os, bits) == os # "linux" /\ (bits = 32 \/ bits = 64)

\* The definitions of memchr_specific the build keeps.
MemchrSpecifics(os, bits) ==
    {i \in {"libc", "fallback"} :
        \/ i = "libc" /\ MemchrLibcCfg(os, bits)
        \/ i = "fallback" /\ MemchrFallbackCfg(os, bits)}

\* The definitions of memrchr_specific the build keeps.
MemrchrSpecifics(os, bits) ==
    {i \in {"linux", "fallback", "generic"} :
        \/ i = "linux" /\ MemrchrLinuxCfg(os, bits)
        \/ i = "fallback" /\ MemrchrFallbackCfg(os, bits)
        \/ i = "generic" /\ MemrchrGenericCfg(os, bits)}

\* memchr: the call of memchr_specific.
CallMemchr ==
    /\ pc = "call"
    /\ fn = "memchr"
    /\ \E i \in MemchrSpecifics(cfg_os, cfg_bits) :
         /\ impl' = i
         /\ pc' = IF i = "libc" THEN "libc_memchr" ELSE "fwd_head"
    /\ UNCHANGED << cfg_os, cfg_bits, fn, x, text, ptr, offset, repeated_x, result,
                    loads, examined, hostCalls, word, wres >>

\* memrchr: the call of memrchr_specific.
CallMemrchr ==
    /\ pc = "call"
    /\ fn = "memrchr"
    /\ \E i \in MemrchrSpecifics(cfg_os, cfg_bits) :
         /\ impl' = i
         /\ pc' = CASE i = "linux" -> "linux_memrchr"
                    [] i = "fallback" -> "rev_tail"
                    [] OTHER -> "generic_memrchr"
    /\ UNCHANGED << cfg_os, cfg_bits, fn, x, text, ptr, offset, repeated_x, result,
                    loads, examined, hostCalls, word, wres >>

\* The addresses of the haystack that hold the byte c.
Occurrences(txt, p, c) == {a \in p..(p + Len(txt) - 1) : txt[a - p + 1] = c}

\* The host's memchr(s, c, n): the first occurrence, or the null pointer 0.
HostMemchr(txt, p, c) ==
    IF Occurrences(txt, p, c) = {} THEN 0
    ELSE CHOOSE a \in Occurrences(txt, p, c) :
            \A b \in Occurrences(txt, p, c) : a <= b

\* The host's memrchr(s, c, n): the last occurrence, or the null pointer 0.
HostMemrchr(txt, p, c) ==
    IF Occurrences(txt, p, c) = {} THEN 0
    ELSE CHOOSE a \in Occurrences(txt, p, c) :
            \A b \in Occurrences(txt, p, c) : a >= b

\* The pointer the host routine returned, as an index.
PtrToIndex(q, p) == IF q = 0 THEN None ELSE Some(q - p)

\* memchr_specific over libc::memchr.
LibcMemchr ==
    /\ pc = "libc_memchr"
    /\ hostCalls' = hostCalls \cup {<< "memchr", Len(text) >>}
    /\ result' = PtrToIndex(HostMemchr(text, ptr, x), ptr)
    /\ pc' = "done"
    /\ UNCHANGED << cfg_os, cfg_bits, fn, impl, x, text, ptr, offset, repeated_x,
                    loads, examined, word, wres >>

\* A mutant of LinuxEmptyGuard: the check is missing.
LinuxEmptyGuard_Missing(txt) == FALSE

\* if haystack.is_empty() {return None}
LinuxEmptyGuard(txt) == Len(txt) = 0

\* memrchr_specific over ffi::memrchr.  GNU's memrchr errors on an empty
\* haystack: called with length 0 it may return null or trap.
LinuxMemrchr ==
    /\ pc = "linux_memrchr"
    /\ IF LinuxEmptyGuard(text)
       THEN /\ result' = None
            /\ pc' = "done"
            /\ UNCHANGED hostCalls
       ELSE /\ hostCalls' = hostCalls \cup {<< "memrchr", Len(text) >>}
            /\ IF Len(text) = 0
               THEN /\ result' = None
                    /\ pc' \in {"done", "fault"}
               ELSE /\ result' = PtrToIndex(HostMemrchr(text, ptr, x), ptr)
                    /\ pc' = "done"
    /\ UNCHANGED << cfg_os, cfg_bits, fn, impl, x, text, ptr, offset, repeated_x,
                    loads, examined, word, wres >>

\* memrchr_specific of the other pointer widths: haystack.iter().rposition(..).
GenericMemrchr ==
    /\ pc = "generic_memrchr"
    /\ result' = RPosition(text, x)
    /\ pc' = "done"
    /\ UNCHANGED << cfg_os, cfg_bits, fn, impl, x, text, ptr, offset, repeated_x,
                    loads, examined, hostCalls, word, wres >>

\* Every build configuration; memchr or memrchr is called with any needle,
\* a short haystack (the empty one among them) and any base address.
InitDispatch ==
    /\ cfg_os \in {"linux", "windows", "macos", "freebsd"}
    /\ cfg_bits \in {16, 32, 64}
    /\ fn \in {"memchr", "memrchr"}
    /\ impl = "none"
    /\ x \in Needles
    /\ \E n \in 0..MaxDispLen : text \in Haystacks(n, x)
    /\ ptr \in 8..15
    /\ pc = "call"
    /\ offset = 0
    /\ repeated_x = << >>
    /\ result = None
    /\ loads = {}
    /\ examined = 0
    /\ hostCalls = {}
    /\ word = << >>
    /\ wres = FALSE

NextDispatch ==
    \/ CallMemchr
    \/ CallMemrchr
    \/ LibcMemchr
    \/ LinuxMemrchr
    \/ GenericMemrchr
    \/ NextSwar

SpecDispatch == InitDispatch /\ [][NextDispatch]_vars


\* ------------------------------------------------------------- properties

\* The indices (from 0) of the bytes of txt equal to b.
Matches(txt, b) == {k \in 0..(Len(txt) - 1) : txt[k + 1] = b}

\* The reference: Some(smallest matching index), or None.
FirstIndex(txt, b) ==
    IF Matches(txt, b) = {} THEN None
    ELSE Some(CHOOSE k \in Matches(txt, b) : \A m \in Matches(txt, b) : k <= m)

\* The reference: Some(largest matching index), or None.
LastIndex(txt, b) ==
    IF Matches(txt, b) = {} THEN None
    ELSE Some(CHOOSE k \in Matches(txt, b) : \A m \in Matches(txt, b) : k >= m)

\* The word size of the running build.
WB == USIZE_BYTES(cfg_bits)

\* C1: whatever the needle, the haystack, its length and the alignment of its
\* base address, fallback::memchr returns Some(i) with i the smallest index
\* such that text[i] = x, and None when no byte of text equals x.
C1_MemchrFindsFirst ==
    (fn = "memchr" /\ pc = "done") => result = FirstIndex(text, x)

\* C1 witness: a haystack longer than four words at a misaligned address with
\* two matches, the first of them found after the body loop has loaded words.
C1_Witness ==
    /\ fn = "memchr" /\ pc = "done"
    /\ Len(text) > 4 * WB
    /\ ptr % WB # 0
    /\ Cardinality(loads) >= 4
    /\ Cardinality(Matches(text, x)) = 2
    /\ result # None /\ result[1] > 2 * WB

\* C2: whatever the needle, the haystack and the alignment of its base and
\* end address, a fallback::memrchr that returns returns Some(i) with i the
\* largest index such that text[i] = x, and None when no byte equals x.
C2_MemrchrFindsLast ==
    (fn = "memrchr" /\ pc = "done") => result = LastIndex(text, x)

\* C2 witness: a haystack longer than four words whose end address is not
\* aligned, with two matches, the last of them found after the body loop has
\* loaded words.
C2_Witness ==
    /\ fn = "memrchr" /\ pc = "done"
    /\ Len(text) > 4 * WB
    /\ (ptr + Len(text)) % WB # 0
    /\ Cardinality(loads) >= 4
    /\ Cardinality(Matches(text, x)) = 2
    /\ result # None /\ result[1] + 2 * WB < Len(text)

\* C3: every raw word load of either scanner reads USIZE_BYTES bytes that
\* lie inside the haystack: ptr <= a and a + USIZE_BYTES <= ptr + len.
C3_LoadsInBounds ==
    \A a \in loads : ptr <= a /\ a + WB <= ptr + Len(text)

\* C3 witness: the reverse scanner has loaded four words of a haystack whose
\* base and end address are both misaligned.
C3_Witness ==
    /\ fn = "memrchr"
    /\ Cardinality(loads) >= 4
    /\ ptr % WB # 0
    /\ (ptr + Len(text)) % WB # 0

\* C4: both scanners terminate and return a value without panicking, for
\* every needle and every haystack; the offset stays within 0..len.
C4_ReturnsWithoutPanic ==
    /\ pc \in {"fwd_head", "fwd_body", "fwd_tail",
               "rev_tail", "rev_body", "rev_head", "done"}
    /\ 0 <= offset /\ offset <= Len(text)

\* C7: in the reverse scanner every word load of the body loop is at an
\* address congruent to 0 modulo USIZE_BYTES.
C7_RevLoadsAligned ==
    fn = "memrchr" => \A a \in loads : a % WB = 0

\* C8: in the forward scanner the body loop loads its two words only when
\* offset + 2 * USIZE_BYTES <= len, at ptr + offset and ptr + offset +
\* USIZE_BYTES, and both addresses are congruent to 0 modulo USIZE_BYTES.
C8_FwdLoadsAligned ==
    [][(fn = "memchr" /\ loads' # loads) =>
          /\ offset + 2 * WB <= Len(text)
          /\ loads' = loads \cup {ptr + offset, ptr + offset + WB}
          /\ (ptr + offset) % WB = 0
          /\ (ptr + offset + WB) % WB = 0]_vars

\* C8 witness: the forward scanner has loaded four words of a haystack that
\* starts at a misaligned address.
C8_Witness ==
    /\ fn = "memchr"
    /\ ptr % WB # 0
    /\ Cardinality(loads) >= 4

\* C9: contains_zero_byte(w) is true exactly when a byte of w is zero; and
\* with repeat_byte(x) the word whose every byte is x, contains_zero_byte
\* (w ^ repeat_byte(x)) is true exactly when a byte of w equals x.
C9_ZeroByteExact ==
    /\ pc = "zero_tested" => (wres <=> \E i \in 1..WB : word[i] = 0)
    /\ pc = "match_tested" =>
          /\ repeated_x = [i \in 1..WB |-> x]
          /\ wres <=> \E i \in 1..WB : word[i] = x

\* C9 witness: a 64-bit word without the needle whose bytes, xored with it,
\* all have the high bit set in the difference or in themselves.
C9_Witness ==
    /\ pc = "match_tested"
    /\ WB = 8
    /\ x = 129
    /\ ~wres
    /\ \E i \in 1..WB : word[i] = 0
    /\ \E i \in 1..WB : word[i] = 128

\* C10 as stated: the final per-byte phase of either scanner examines at most
\* 2 * USIZE_BYTES - 1 bytes before it returns.
C10_AsStated ==
    examined <= 2 * WB - 1

\* C10 as amended: the final per-byte phase of either scanner examines at
\* most 2 * USIZE_BYTES bytes before it returns.
C10_FinalScanBounded ==
    examined <= 2 * WB

\* C10 witness: the body loop ran, broke on a candidate pair, and the final
\* phase examined 2 * USIZE_BYTES bytes to reach the match.
C10_Witness ==
    /\ pc = "done"
    /\ Cardinality(loads) >= 4
    /\ examined = 2 * WB
    /\ result # None

\* C5: on an empty haystack memchr and memrchr return None on every dispatch
\* path, and the host's memrchr is never invoked with length zero.
C5_EmptyHaystack ==
    /\ Len(text) = 0 => /\ pc \notin {"panic", "fault"}
                        /\ pc = "done" => result = None
    /\ << "memrchr", 0 >> \notin hostCalls

\* C5 witness: memrchr has returned from the linux path on an empty haystack.
C5_Witness ==
    /\ Len(text) = 0
    /\ fn = "memrchr"
    /\ impl = "linux"
    /\ pc = "done"

\* The matrix of the specification.
MatrixImpl(f, os, bits) ==
    IF f = "memchr"
    THEN IF os = "windows" /\ bits \in {32, 64} THEN "fallback" ELSE "libc"
    ELSE IF os = "linux" THEN "linux"
    ELSE IF bits \in {32, 64} THEN "fallback"
    ELSE "generic"

\* C6: in every build configuration exactly one memchr_specific and exactly
\* one memrchr_specific is compiled, the one the matrix names, and wherever
\* the fallback is selected the fallback module is compiled.
C6_DispatchMatrix ==
    /\ Cardinality(MemchrSpecifics(cfg_os, cfg_bits)) = 1
    /\ Cardinality(MemrchrSpecifics(cfg_os, cfg_bits)) = 1
    /\ pc # "call" => impl = MatrixImpl(fn, cfg_os, cfg_bits)
    /\ impl = "fallback" => FallbackModCfg(cfg_os, cfg_bits)

\* C6 witness: memrchr has run through the fallback on a 64-bit target that
\* is neither linux nor windows.
C6_Witness ==
    /\ fn = "memrchr"
    /\ cfg_os = "macos"
    /\ cfg_bits = 64
    /\ impl = "fallback"
    /\ pc = "done"

====
